---- MODULE Spec2Model ----
(***************************************************************************)
(* A model of LatticeKeyring (src/index.js): the keyring's fields, the     *)
(* Lattice device behind the SDK session, and one action per keyring       *)
(* method or SDK callback.  A keyring operation runs synchronously up to    *)
(* the next external call (credential popup, connect, getAddresses, sign)   *)
(* and is resumed by that call's callback; the device can change its       *)
(* active wallet between the two.                                          *)
(***************************************************************************)
EXTENDS Integers, Sequences, FiniteSets, TLC

\* ------------------------------------------------------------------ bounds
MaxN == 2          \* addAccounts(n): n ranges over -1 .. MaxN (and CLOSE_CODE)
MaxIndex == 1      \* setAccountToUnlock(index): index ranges over 0 .. MaxIndex
MaxPage == 1       \* getNextPage is called while page < MaxPage
MaxCache == 2      \* addAccounts(n) is called while accountIndices has room for n more
MaxMinor == 11     \* firmware minor versions range over FirstFullMinor - 1 .. MaxMinor
MaxMajor == 1      \* firmware major versions range over 0 .. MaxMajor
MaxFix == 1        \* firmware fix versions range over 0 .. MaxFix

\* ------------------------------------------------------- program constants
PER_PAGE == 5
CLOSE_CODE == -1000
FirstFullMinor == 11   \* the `11` of `fwVersion[1] < 11`
FirstFullMajor == 1    \* the `1` of `fwVersion[2] < 1`
MaxPathIndices == 5    \* the `5` of `indices.length > 5`

\* --------------------------------------------------------------- JS values
\* A JS value is a tagged tuple, so that null, undefined and a present value
\* are three different things and can be compared with one another.
Null == <<"null">>
Undefined == <<"undefined">>
Val(x) == <<"val", x>>
IsNullish(v) == v = Null \/ v = Undefined
\* `0x${v.toString('hex')}`: the hex string of a present value
HexOf(v) == <<"0x", v>>

\* ------------------------------------------------------------- HD paths
\* A path string is the sequence of its characters.
Digits == <<"0", "1", "2", "3", "4", "5", "6", "7", "8", "9">>
IsDigit(c) == \E d \in 1..10 : Digits[d] = c
DigitVal(c) == (CHOOSE d \in 1..10 : Digits[d] = c) - 1

STANDARD_HD_PATH ==
    <<"m", "/", "4", "4", "'", "/", "6", "0", "'", "/", "0", "'", "/", "0", "/", "x">>
\* Ledger Live: the variable index is internal
LEDGER_LIVE_PATH ==
    <<"m", "/", "4", "4", "'", "/", "6", "0", "'", "/", "x", "'", "/", "0", "/", "0">>
\* Ledger legacy (MEW): no variable marker, the index is appended
LEDGER_LEGACY_PATH ==
    <<"m", "/", "4", "4", "'", "/", "6", "0", "'", "/", "0", "'">>
\* five fixed segments: the appended index makes six
LONG_PATH ==
    <<"m", "/", "4", "4", "'", "/", "6", "0", "'", "/", "0", "'", "/", "0", "/", "0">>

\* the variable index is internal, before a fixed terminal index
INNER_PATH ==
    <<"m", "/", "4", "4", "'", "/", "6", "0", "'", "/", "0", "'", "/", "x", "/", "1">>

\* String.prototype.split(sep): the pieces between the separators
RECURSIVE SplitFrom(_, _, _, _)
SplitFrom(s, sep, k, cur) ==
    IF k > Len(s) THEN <<cur>>
    ELSE IF s[k] = sep THEN <<cur>> \o SplitFrom(s, sep, k + 1, <<>>)
    ELSE SplitFrom(s, sep, k + 1, Append(cur, s[k]))
Split(s, sep) == SplitFrom(s, sep, 1, <<>>)

\* the path templates the keyring is given
Paths == {STANDARD_HD_PATH, LEDGER_LIVE_PATH, LEDGER_LEGACY_PATH, LONG_PATH, INNER_PATH}
\* this.hdPath.split('/').slice(1), for each of them
SegmentsOf == [p \in Paths |-> Tail(Split(p, "/"))]
PathSegments(path) == SegmentsOf[path]

\* _idx.indexOf('x') > -1
HasX(seg) == \E k \in 1..Len(seg) : seg[k] = "x"
\* _idx[_idx.length - 1] === "'"
IsHardened(seg) == Len(seg) > 0 /\ seg[Len(seg)] = "'"

\* Number(str) for a string of decimal digits (0 for the empty string); any
\* other string is NaN, written -1.
RECURSIVE DecimalOf(_, _)
DecimalOf(seg, acc) ==
    IF seg = <<>> THEN acc ELSE DecimalOf(Tail(seg), 10 * acc + DigitVal(Head(seg)))
Number(seg) ==
    IF \A k \in 1..Len(seg) : IsDigit(seg[k]) THEN DecimalOf(seg, 0) ELSE -1

\* One derivation index is HARDENED_OFFSET * hard + low with hard in {0, 1}:
\* 0x80000000 is kept as the flag `hard`, since low stays far below 2^31.
Index(hard, low) == [hard |-> hard, low |-> low]

\* the body of path.forEach in _getHDPathIndices
SegmentIndex(seg, insertIdx) ==
    LET isHardened == IsHardened(seg)
        hard == IF isHardened THEN 1 ELSE 0
    IN  IF HasX(seg) THEN Index(hard, insertIdx)
        ELSE IF isHardened THEN Index(hard, Number(SubSeq(seg, 1, Len(seg) - 1)))
        ELSE Index(hard, Number(seg))

\* ResolvedIndices that appends insertIdx whether or not a segment used it
ResolvedIndicesAlwaysAppending(path, insertIdx) ==
    LET segs == PathSegments(path)
        indices == [k \in 1..Len(segs) |-> SegmentIndex(segs[k], insertIdx)]
    IN  Append(indices, Index(0, insertIdx))
\* the indices list before the length check
ResolvedIndices(path, insertIdx) ==
    LET segs == PathSegments(path)
        indices == [k \in 1..Len(segs) |-> SegmentIndex(segs[k], insertIdx)]
        usedX == \E k \in 1..Len(segs) : HasX(segs[k])
    IN  IF usedX THEN indices ELSE Append(indices, Index(0, insertIdx))

\* _getHDPathIndices throws when more than 5 indices result
PathThrows(path) == Len(ResolvedIndices(path, 0)) > MaxPathIndices
GetHDPathIndices(path, insertIdx) == ResolvedIndices(path, insertIdx)

\* HdPathHasInternalVarIdx that also looks at the last segment
HdPathHasVarIdx(path) ==
    LET segs == PathSegments(path)
    IN  \E k \in 1..Len(segs) : HasX(segs[k])
\* _hdPathHasInternalVarIdx
HdPathHasInternalVarIdx(path) ==
    LET segs == PathSegments(path)
    IN  \E k \in 1..(Len(segs) - 1) : HasX(segs[k])

\* ------------------------------------------------------------------ state
VARIABLES
    \* the keyring's fields
    creds,            \* {deviceID, password, endpoint}
    appName,          \* set by deserialize(opts) in the constructor, never reset
    accounts,         \* the address cache
    accountIndices,   \* the derivation index recorded for each cached address
    walletUID,        \* the wallet identity the cache belongs to
    sdkSession,       \* the SDK client, or null
    page,
    unlockedAccount,
    hdPath,
    \* the Lattice behind the SDK
    devWallet,        \* the uid of its active wallet, or null when it has none
    devFw,            \* its firmware version, as the SDK reports it
    \* the operation in flight
    pc,               \* idle, or the external call awaited, or done
    op,               \* the method called and its arguments and locals
    result,           \* how the method's promise was settled
    \* history
    calls,            \* the popup, SDK and device calls the operation in flight has made
    pre,              \* accounts, accountIndices and walletUID when it was called
    connect,          \* what its connect reported, and whether the cache was cleared
    signReq,          \* the data of the sign request it sent, or null
    fetchedIdx,       \* for each cached address, the index it was fetched at
    unlocked,         \* whether an unlock has resolved since the last reset
    returned          \* how many of its connect, getAddresses and sign calls have called back

keyringVars == <<creds, appName, accounts, accountIndices, walletUID, sdkSession,
                 page, unlockedAccount, hdPath>>
deviceVars == <<devWallet, devFw>>
opVars == <<pc, op, result>>
historyVars == <<calls, pre, connect, signReq, fetchedIdx, unlocked, returned>>
vars == <<keyringVars, deviceVars, opVars, historyVars>>

\* ------------------------------------------------------------ input sets
Wallets == {"A", "B"}
\* [fix, minor, major, reserved], as sdkSession.fwVersion
FwVersions ==
    {<<f, mi, ma, 0>> : f \in 0..MaxFix, mi \in (FirstFullMinor - 1)..MaxMinor,
                        ma \in 0..MaxMajor}
\* what the credential popup posts back
CredsData ==
    {[deviceID |-> Val("dev"), password |-> Val("pw"), endpoint |-> Val("url")],
     [deviceID |-> Undefined, password |-> Val("pw"), endpoint |-> Undefined]}

\* an address is the key of wallet w at derivation path p; the device
\* returns it checksummed (mixed case), a caller may pass it lower-cased
Address(w, p) == [w |-> w, p |-> p, lower |-> FALSE]
ToLowerCase(a) == [a EXCEPT !.lower = TRUE]

\* ------------------------------------------------------------ predicates
\* _hasCreds
HasCredsOf(c, name) ==
    c.deviceID # Null /\ c.password # Null /\ ~IsNullish(name)
HasCreds == HasCredsOf(creds, appName)
\* _hasSession
HasSessionOf(s, uid) == ~IsNullish(s) /\ ~IsNullish(uid)
HasSession == HasSessionOf(sdkSession, walletUID)
\* isUnlocked
IsUnlocked == HasCreds /\ HasSession

NoCreds == [deviceID |-> Null, password |-> Null, endpoint |-> Null]
NoOp == [kind |-> "none", updateData |-> TRUE, n |-> 0, i |-> 0,
         recursedAddrs |-> <<>>, address |-> Null, tx |-> Null, res |-> Null]
Pending == [status |-> "pending", error |-> "", value |-> <<>>]
Rejected(e) == [status |-> "rejected", error |-> e, value |-> <<>>]
Resolved(v) == [status |-> "resolved", error |-> "", value |-> v]
NoPre == [accounts |-> <<>>, accountIndices |-> <<>>, walletUID |-> Null, page |-> 0,
          creds |-> NoCreds, sdkSession |-> Null]
Snapshot == [accounts |-> accounts, accountIndices |-> accountIndices,
             walletUID |-> walletUID, page |-> page,
             creds |-> creds, sdkSession |-> sdkSession]
\* no connect callback yet
NoConnect == [uid |-> Undefined, cleared |-> FALSE]
Call(name, path, n) == [call |-> name, path |-> path, n |-> n]

\* _genSessionKey: the digest of password, deviceID and appName
GenSessionKey(c, name) == <<"sha256", c.password, c.deviceID, name>>
\* new SDK.Client(setupData)
NewClient(c, name) ==
    Val([baseUrl |-> IF IsNullish(c.endpoint) THEN Val("https://signing.gridpl.us")
                     ELSE c.endpoint,
         privKey |-> GenSessionKey(c, name)])
\* InitSession that opens a new client on every unlock
InitSessionAlwaysNew(c) ==
    IF ~HasCredsOf(c, appName)
    THEN [error |-> "No credentials -- cannot create session key!",
          session |-> sdkSession, created |-> FALSE]
    ELSE [error |-> "", session |-> NewClient(c, appName), created |-> TRUE]
\* _initSession with credentials c: the session afterwards and whether
\* new SDK.Client was called, or the error thrown by _genSessionKey
InitSession(c) ==
    IF HasSessionOf(sdkSession, walletUID)
    THEN [error |-> "", session |-> sdkSession, created |-> FALSE]
    ELSE IF ~HasCredsOf(c, appName)
         THEN [error |-> "No credentials -- cannot create session key!",
               session |-> sdkSession, created |-> FALSE]
    ELSE [error |-> "", session |-> NewClient(c, appName), created |-> TRUE]

\* ResetDefaults that leaves the session and the wallet identity in place
ResetDefaultsKeepingSession ==
    /\ accounts' = <<>>
    /\ accountIndices' = <<>>
    /\ creds' = NoCreds
    /\ UNCHANGED <<walletUID, sdkSession>>
    /\ page' = 0
    /\ unlockedAccount' = 0
    /\ hdPath' = STANDARD_HD_PATH
    /\ fetchedIdx' = <<>>
    /\ unlocked' = FALSE
\* _resetDefaults
ResetDefaults ==
    /\ accounts' = <<>>
    /\ accountIndices' = <<>>
    /\ creds' = NoCreds
    /\ walletUID' = Null
    /\ sdkSession' = Null
    /\ page' = 0
    /\ unlockedAccount' = 0
    /\ hdPath' = STANDARD_HD_PATH
    /\ fetchedIdx' = <<>>
    /\ unlocked' = FALSE

\* the constructor: _resetDefaults, then deserialize(opts) with opts.appName;
\* the device has one of the firmware versions fws
InitWith(fws) ==
    /\ accounts = <<>>
    /\ accountIndices = <<>>
    /\ creds = NoCreds
    /\ walletUID = Null
    /\ sdkSession = Null
    /\ page = 0
    /\ unlockedAccount = 0
    /\ hdPath = STANDARD_HD_PATH
    /\ appName \in {Undefined, Val("app")}
    /\ devWallet \in {Null} \cup {Val(w) : w \in Wallets}
    /\ devFw \in fws
    /\ pc = "idle"
    /\ op = NoOp
    /\ result = Pending
    /\ calls = <<>>
    /\ pre = NoPre
    /\ connect = NoConnect
    /\ signReq = Null
    /\ fetchedIdx = <<>>
    /\ unlocked = FALSE
    /\ returned = 0

\* ------------------------------------------------------------------ unlock
\* unlock() from `return this._initSession()` on, with the credentials c the
\* keyring then holds: the session is created if needed and connect is sent
InitSessionAndConnect(c) ==
    LET s == InitSession(c)
        made == IF s.created THEN Append(calls, Call("newClient", <<>>, 0)) ELSE calls
    IN  /\ creds' = c
        /\ sdkSession' = s.session
        /\ IF s.error = ""
           THEN /\ pc' = "connect"
                /\ result' = Pending
                /\ calls' = Append(made, Call("connect", <<>>, 0))
           ELSE /\ pc' = "done"
                /\ result' = Rejected(s.error)
                /\ calls' = made

\* unlock() up to its first external call: _getCreds opens the popup unless
\* the keyring has credentials
BeginUnlock ==
    IF HasCreds
    THEN InitSessionAndConnect(creds)
    ELSE /\ pc' = "creds"
         /\ result' = Pending
         /\ calls' = Append(calls, Call("getCreds", <<>>, 0))
         /\ UNCHANGED <<creds, sdkSession>>

\* unlock(updateData)
CallUnlock(updateData) ==
    /\ pc = "idle"
    /\ op' = [NoOp EXCEPT !.kind = "unlock", !.updateData = updateData]
    /\ pre' = Snapshot
    /\ BeginUnlock
    /\ UNCHANGED <<appName, accounts, accountIndices, walletUID, page,
                   unlockedAccount, hdPath, deviceVars, connect, signReq, fetchedIdx, unlocked, returned>>

\* the popup is closed, or posts its message
CredsClosed ==
    /\ pc = "creds"
    /\ pc' = "done"
    /\ result' = Rejected("Lattice connector closed.")
    /\ UNCHANGED <<keyringVars, deviceVars, op, historyVars>>

CredsReceived(data) ==
    /\ pc = "creds"
    /\ IF IsNullish(data.deviceID) \/ IsNullish(data.password)
       THEN /\ pc' = "done"
            /\ result' = Rejected("Invalid credentials returned from Lattice.")
            /\ UNCHANGED <<creds, sdkSession, calls>>
       ELSE InitSessionAndConnect(
                [deviceID |-> data.deviceID, password |-> data.password,
                 endpoint |-> IF IsNullish(data.endpoint) THEN Null ELSE data.endpoint])
    /\ UNCHANGED <<appName, accounts, accountIndices, walletUID, page,
                   unlockedAccount, hdPath, deviceVars, op, pre, connect, signReq, fetchedIdx, unlocked, returned>>

\* ----------------------------------------------------------------- connect
\* the callback of sdkSession.connect in _connect: err is the SDK's error,
\* active the uid of the wallet the SDK then reports (null for none)
\* Connect without the `updateData === false` rejection: a changed wallet
\* is let through unnoticed
ConnectWithoutStaleCheck(updateData, err, active) ==
    LET same == [accounts |-> accounts, walletUID |-> walletUID, cleared |-> FALSE]
    IN  IF err THEN [error |-> "connect failed"] @@ same
        ELSE IF IsNullish(active) THEN [error |-> "No active wallet"] @@ same
        ELSE IF active # walletUID /\ updateData
             THEN [error |-> "", accounts |-> <<>>, walletUID |-> active, cleared |-> TRUE]
        ELSE [error |-> ""] @@ same
\* Connect that clears the cache before it looks at updateData
ConnectClearingFirst(updateData, err, active) ==
    LET same == [accounts |-> accounts, walletUID |-> walletUID, cleared |-> FALSE]
    IN  IF err THEN [error |-> "connect failed"] @@ same
        ELSE IF IsNullish(active) THEN [error |-> "No active wallet"] @@ same
        ELSE IF active # walletUID
             THEN IF updateData = FALSE
                  THEN [error |-> "Wallet has changed! Please reconnect.",
                        accounts |-> <<>>, walletUID |-> walletUID, cleared |-> TRUE]
                  ELSE [error |-> "", accounts |-> <<>>, walletUID |-> active,
                        cleared |-> TRUE]
        ELSE [error |-> ""] @@ same
\* Connect that resets the cache on every successful connect
ConnectAlwaysClearing(updateData, err, active) ==
    LET same == [accounts |-> accounts, walletUID |-> walletUID, cleared |-> FALSE]
    IN  IF err THEN [error |-> "connect failed"] @@ same
        ELSE IF IsNullish(active) THEN [error |-> "No active wallet"] @@ same
        ELSE IF active # walletUID /\ updateData = FALSE
             THEN [error |-> "Wallet has changed! Please reconnect."] @@ same
        ELSE IF updateData
             THEN [error |-> "", accounts |-> <<>>, walletUID |-> active, cleared |-> TRUE]
        ELSE [error |-> ""] @@ same
\* Connect that drops only the oldest cached address on a wallet change
ConnectDroppingOldest(updateData, err, active) ==
    LET same == [accounts |-> accounts, walletUID |-> walletUID, cleared |-> FALSE]
    IN  IF err THEN [error |-> "connect failed"] @@ same
        ELSE IF IsNullish(active) THEN [error |-> "No active wallet"] @@ same
        ELSE IF active # walletUID
             THEN IF updateData = FALSE
                  THEN [error |-> "Wallet has changed! Please reconnect."] @@ same
                  ELSE [error |-> "",
                        accounts |-> IF accounts = <<>> THEN <<>> ELSE Tail(accounts),
                        walletUID |-> active, cleared |-> TRUE]
        ELSE [error |-> ""] @@ same
Connect(updateData, err, active) ==
    LET same == [accounts |-> accounts, walletUID |-> walletUID, cleared |-> FALSE]
    IN  IF err THEN [error |-> "connect failed"] @@ same
        ELSE IF IsNullish(active) THEN [error |-> "No active wallet"] @@ same
        ELSE IF active # walletUID
             THEN IF updateData = FALSE
                  THEN [error |-> "Wallet has changed! Please reconnect."] @@ same
                  ELSE [error |-> "", accounts |-> <<>>, walletUID |-> active,
                        cleared |-> TRUE]
        ELSE [error |-> ""] @@ same

\* sdkSession.getActiveWallet() and sdkSession.fwVersion after a connect that
\* reached the device: what the device has then
ActiveWallet == devWallet
FwVersion == devFw

\* what the connect callback does to the keyring, err being the SDK's error
ApplyConnect(err) ==
    LET c == Connect(op.updateData, err, ActiveWallet)
    IN  /\ accounts' = c.accounts
        /\ walletUID' = c.walletUID
        /\ fetchedIdx' = IF c.cleared THEN <<>> ELSE fetchedIdx
        /\ connect' = [uid |-> IF err THEN Undefined ELSE ActiveWallet,
                       cleared |-> c.cleared]
        /\ unlocked' = (unlocked \/ c.error = "")
        /\ returned' = returned + 1
ConnectError(err) == Connect(op.updateData, err, ActiveWallet).error

\* connect fails, or _connect rejects: unlock rejects, and with it the method
ConnectRejected(err) ==
    /\ pc = "connect"
    /\ ConnectError(err) # ""
    /\ ApplyConnect(err)
    /\ pc' = "done"
    /\ result' = Rejected(ConnectError(err))
    /\ UNCHANGED <<creds, appName, accountIndices, sdkSession, page, unlockedAccount,
                   hdPath, deviceVars, op, calls, pre, signReq>>

\* unlock resolves 'Unlocked'
UnlockConnected ==
    /\ pc = "connect"
    /\ op.kind = "unlock"
    /\ ConnectError(FALSE) = ""
    /\ ApplyConnect(FALSE)
    /\ pc' = "done"
    /\ result' = Resolved(<<"Unlocked">>)
    /\ UNCHANGED <<creds, appName, accountIndices, sdkSession, page, unlockedAccount,
                   hdPath, deviceVars, op, calls, pre, signReq>>

\* ---------------------------------------------------------- address fetch
ShouldRecurse == HdPathHasInternalVarIdx(hdPath)
LastCall == calls[Len(calls)]

\* the n addresses the device derives from startPath: only the last index
\* of the path varies within one request
DeviceAddresses(w, startPath, n) ==
    [j \in 1..n |->
        Address(w, [startPath EXCEPT ![Len(startPath)].low = @ + (j - 1)])]

\* BeginFetch that sends the requests of a recursive fetch all at once
BeginFetchAllAtOnce(n, i, s, uid) ==
    IF ~HasSessionOf(s, uid)
    THEN /\ pc' = "done"
         /\ result' = Rejected("No SDK session started. Cannot fetch addresses.")
         /\ calls' = calls
    ELSE IF PathThrows(hdPath)
    THEN /\ pc' = "done"
         /\ result' = Rejected("Only HD paths with up to 5 indices are allowed.")
         /\ calls' = calls
    ELSE /\ pc' = "fetch"
         /\ result' = Pending
         /\ calls' = IF ShouldRecurse
                      THEN calls \o [j \in 1..n |->
                                        Call("getAddresses", GetHDPathIndices(hdPath, i + (j - 1)), 1)]
                      ELSE Append(calls, Call("getAddresses", GetHDPathIndices(hdPath, i), n))
\* _fetchAddresses(n, i) up to sdkSession.getAddresses, for a keyring whose
\* connect has just left the session s and the wallet identity uid
BeginFetch(n, i, s, uid) ==
    IF ~HasSessionOf(s, uid)
    THEN /\ pc' = "done"
         /\ result' = Rejected("No SDK session started. Cannot fetch addresses.")
         /\ calls' = calls
    ELSE IF PathThrows(hdPath)
    THEN /\ pc' = "done"
         /\ result' = Rejected("Only HD paths with up to 5 indices are allowed.")
         /\ calls' = calls
    ELSE /\ pc' = "fetch"
         /\ result' = Pending
         /\ calls' = Append(calls, Call("getAddresses", GetHDPathIndices(hdPath, i),
                                        IF ShouldRecurse THEN 1 ELSE n))

\* addAccounts(n), n > 0
CallAddAccounts(n) ==
    /\ pc = "idle"
    /\ n > 0
    /\ Len(accountIndices) + n <= MaxCache
    /\ op' = [NoOp EXCEPT !.kind = "addAccounts", !.n = n]
    /\ pre' = Snapshot
    /\ BeginUnlock
    /\ UNCHANGED <<appName, accounts, accountIndices, walletUID, page,
                   unlockedAccount, hdPath, deviceVars, connect, signReq, fetchedIdx, unlocked, returned>>

\* addAccounts(n), n <= 0 and not the close code
AddAccountsNonPositive(n) ==
    /\ pc = "idle"
    /\ n <= 0 /\ n # CLOSE_CODE
    /\ op' = [NoOp EXCEPT !.kind = "addAccounts", !.n = n]
    /\ pre' = Snapshot
    /\ pc' = "done"
    /\ result' = Rejected("Number of accounts to add must be a positive number.")
    /\ UNCHANGED <<keyringVars, deviceVars, calls, connect, signReq, fetchedIdx, unlocked, returned>>

\* addAccounts(CLOSE_CODE)
AddAccountsClose ==
    /\ pc = "idle"
    /\ op' = [NoOp EXCEPT !.kind = "addAccounts", !.n = CLOSE_CODE]
    /\ pre' = Snapshot
    /\ ResetDefaults
    /\ pc' = "done"
    /\ result' = Resolved(<<>>)
    /\ UNCHANGED <<appName, deviceVars, calls, connect, signReq, returned>>

\* _getPage(increment), after getFirstPage has reset the page when first
GetPage(increment, first) ==
    LET p0 == IF first THEN 0 ELSE page
        p1 == IF p0 + increment < 0 THEN 0 ELSE p0 + increment
    IN  /\ pc = "idle"
        /\ p1 <= MaxPage
        /\ page' = p1
        /\ op' = [NoOp EXCEPT !.kind = "getPage", !.n = PER_PAGE, !.i = PER_PAGE * p1]
        /\ pre' = Snapshot
        /\ BeginUnlock
        /\ UNCHANGED <<appName, accounts, accountIndices, walletUID,
                       unlockedAccount, hdPath, deviceVars, connect, signReq, fetchedIdx, unlocked, returned>>
GetFirstPage == GetPage(0, TRUE)
GetNextPage == GetPage(1, FALSE)
GetPreviousPage == GetPage(-1, FALSE)

\* unlock() has resolved inside addAccounts or _getPage: _fetchAddresses
FetchAfterConnect ==
    /\ pc = "connect"
    /\ op.kind \in {"addAccounts", "getPage"}
    /\ ConnectError(FALSE) = ""
    /\ ApplyConnect(FALSE)
    /\ LET i == IF op.kind = "addAccounts" THEN unlockedAccount ELSE op.i
       IN  /\ op' = [op EXCEPT !.i = i]
           /\ BeginFetch(op.n, i, sdkSession,
                         Connect(op.updateData, FALSE, ActiveWallet).walletUID)
    /\ UNCHANGED <<creds, appName, accountIndices, sdkSession, page, unlockedAccount,
                   hdPath, deviceVars, pre, signReq>>

\* getAddresses fails, or returns no address
FetchFailed(empty) ==
    /\ pc = "fetch"
    /\ pc' = "done"
    /\ result' = Rejected(IF empty THEN "No addresses returned" ELSE "getAddresses failed")
    /\ returned' = returned + 1
    /\ UNCHANGED <<keyringVars, deviceVars, op, calls, pre, connect, signReq, fetchedIdx, unlocked>>

\* the addresses of the request awaited, from the wallet now active
Fetched == DeviceAddresses(devWallet[2], LastCall.path, LastCall.n)
\* all the addresses of the operation once this request has returned, and
\* the index the k-th of them was requested at
AllFetched == IF ShouldRecurse THEN op.recursedAddrs \o Fetched ELSE Fetched
FetchIndex(k) == (op.i - Len(op.recursedAddrs)) + (k - 1)
LastRequest == ~ShouldRecurse \/ op.n - 1 = 0

\* FetchRecursed that stores each address as soon as it is fetched
FetchRecursedStoring ==
    /\ pc = "fetch"
    /\ ~IsNullish(devWallet)
    /\ ~LastRequest
    /\ op' = [op EXCEPT !.n = @ - 1, !.i = @ + 1, !.recursedAddrs = @ \o Fetched]
    /\ calls' = Append(calls, Call("getAddresses", GetHDPathIndices(hdPath, op.i + 1), 1))
    /\ accounts' = accounts \o Fetched
    /\ accountIndices' = Append(accountIndices, op.i)
    /\ fetchedIdx' = Append(fetchedIdx, op.i)
    /\ returned' = returned + 1
    /\ UNCHANGED <<creds, appName, walletUID, sdkSession, page, unlockedAccount, hdPath,
                   deviceVars, pc, result, pre, connect, signReq, unlocked>>
\* getAddresses returns and __fetchAddresses recurses to the next index
FetchRecursed ==
    /\ pc = "fetch"
    /\ ~IsNullish(devWallet)
    /\ ~LastRequest
    /\ op' = [op EXCEPT !.n = @ - 1, !.i = @ + 1, !.recursedAddrs = @ \o Fetched]
    /\ calls' = Append(calls, Call("getAddresses", GetHDPathIndices(hdPath, op.i + 1), 1))
    /\ returned' = returned + 1
    /\ UNCHANGED <<keyringVars, deviceVars, pc, result, pre, connect, signReq, fetchedIdx, unlocked>>

\* AddAddrs without the indexOf test: every fetched address is pushed
RECURSIVE AddAddrsWithoutDedup(_, _, _)
AddAddrsWithoutDedup(st, addrs, k) ==
    IF k > Len(addrs) THEN st
    ELSE AddAddrsWithoutDedup(
             [accounts |-> Append(st.accounts, addrs[k]),
              accountIndices |-> Append(st.accountIndices, unlockedAccount + (k - 1)),
              fetchedIdx |-> Append(st.fetchedIdx, FetchIndex(k))],
             addrs, k + 1)
\* AddAddrs that counts the indices from 0, whatever unlockedAccount is
RECURSIVE AddAddrsFromZero(_, _, _)
AddAddrsFromZero(st, addrs, k) ==
    IF k > Len(addrs) THEN st
    ELSE IF \E m \in 1..Len(st.accounts) : st.accounts[m] = addrs[k]
    THEN AddAddrsFromZero(st, addrs, k + 1)
    ELSE AddAddrsFromZero([accounts |-> Append(st.accounts, addrs[k]),
                           accountIndices |-> Append(st.accountIndices, k - 1),
                           fetchedIdx |-> Append(st.fetchedIdx, FetchIndex(k))],
                          addrs, k + 1)
\* AddAddrs that records unlockedAccount for every address, without `+i`
RECURSIVE AddAddrsSameIndex(_, _, _)
AddAddrsSameIndex(st, addrs, k) ==
    IF k > Len(addrs) THEN st
    ELSE IF \E m \in 1..Len(st.accounts) : st.accounts[m] = addrs[k]
    THEN AddAddrsSameIndex(st, addrs, k + 1)
    ELSE AddAddrsSameIndex([accounts |-> Append(st.accounts, addrs[k]),
                            accountIndices |-> Append(st.accountIndices, unlockedAccount),
                            fetchedIdx |-> Append(st.fetchedIdx, FetchIndex(k))],
                           addrs, k + 1)
\* addrs.forEach of addAccounts, from the k-th address on; st holds the
\* cache, the indices and the fetch history
RECURSIVE AddAddrs(_, _, _)
AddAddrs(st, addrs, k) ==
    IF k > Len(addrs) THEN st
    ELSE IF \E m \in 1..Len(st.accounts) : st.accounts[m] = addrs[k]
    THEN AddAddrs(st, addrs, k + 1)
    ELSE AddAddrs([accounts |-> Append(st.accounts, addrs[k]),
                   accountIndices |-> Append(st.accountIndices, unlockedAccount + (k - 1)),
                   fetchedIdx |-> Append(st.fetchedIdx, FetchIndex(k))],
                  addrs, k + 1)

\* the last getAddresses of addAccounts returns: the addresses are stored
AddAccountsFetched ==
    /\ pc = "fetch"
    /\ op.kind = "addAccounts"
    /\ ~IsNullish(devWallet)
    /\ LastRequest
    /\ LET st == AddAddrs([accounts |-> accounts, accountIndices |-> accountIndices,
                           fetchedIdx |-> fetchedIdx], AllFetched, 1)
       IN  /\ accounts' = st.accounts
           /\ accountIndices' = st.accountIndices
           /\ fetchedIdx' = st.fetchedIdx
           /\ result' = Resolved(st.accounts)
    /\ pc' = "done"
    /\ returned' = returned + 1
    /\ UNCHANGED <<creds, appName, walletUID, sdkSession, page, unlockedAccount, hdPath,
                   deviceVars, op, calls, pre, connect, signReq, unlocked>>

\* the last getAddresses of _getPage returns: the page is built
PageFetched ==
    /\ pc = "fetch"
    /\ op.kind = "getPage"
    /\ ~IsNullish(devWallet)
    /\ LastRequest
    /\ result' = Resolved([k \in 1..Len(AllFetched) |->
                              [address |-> AllFetched[k], balance |-> Null,
                               index |-> (PER_PAGE * page) + (k - 1)]])
    /\ pc' = "done"
    /\ returned' = returned + 1
    /\ UNCHANGED <<keyringVars, deviceVars, op, calls, pre, connect, signReq, fetchedIdx, unlocked>>

\* ------------------------------------------------------ synchronous methods
\* forgetDevice
ForgetDevice ==
    /\ pc = "idle"
    /\ op' = [NoOp EXCEPT !.kind = "forgetDevice"]
    /\ pre' = Snapshot
    /\ ResetDefaults
    /\ pc' = "done"
    /\ result' = Resolved(<<>>)
    /\ UNCHANGED <<appName, deviceVars, calls, connect, signReq, returned>>

\* removeAccount(address)
RemoveAccount(address) ==
    /\ pc = "idle"
    /\ op' = [NoOp EXCEPT !.kind = "removeAccount", !.address = Val(address)]
    /\ pre' = Snapshot
    /\ ResetDefaults
    /\ pc' = "done"
    /\ result' = Resolved(<<>>)
    /\ UNCHANGED <<appName, deviceVars, calls, connect, signReq, returned>>

\* setAccountToUnlock(index)
SetAccountToUnlock(index) ==
    /\ pc = "idle"
    /\ unlockedAccount' = index
    /\ UNCHANGED <<creds, appName, accounts, accountIndices, walletUID, sdkSession,
                   page, hdPath, deviceVars, opVars, historyVars>>

\* setHdPath(hdPath)
SetHdPath(path) ==
    /\ pc = "idle"
    /\ hdPath' = path
    /\ UNCHANGED <<creds, appName, accounts, accountIndices, walletUID, sdkSession,
                   page, unlockedAccount, deviceVars, opVars, historyVars>>

\* the caller has seen the method return or its promise settle
Settle ==
    /\ pc = "done"
    /\ pc' = "idle"
    /\ op' = NoOp
    /\ result' = Pending
    /\ calls' = <<>>
    /\ pre' = NoPre
    /\ connect' = NoConnect
    /\ signReq' = Null
    /\ returned' = 0
    /\ UNCHANGED <<keyringVars, deviceVars, fetchedIdx, unlocked>>

\* ------------------------------------------------------------- the device
\* a SafeCard is inserted or removed: the active wallet changes (at any time
\* but between a method's return and its caller reading the result, which
\* follow each other at once)
SwapWallet(w) ==
    /\ pc # "done"
    /\ devWallet # w
    /\ devWallet' = w
    /\ UNCHANGED <<keyringVars, devFw, opVars, historyVars>>

\* ------------------------------------------------------------------ signing
\* The transactions signed: tx._type, whether `to` is set, and the fee
\* fields; the fields copied unchanged into the request (chainId, nonce,
\* gasLimit, value, data) are left out.
Tx(type, to, gasPrice, maxFee, maxPriority, accessList) ==
    [type |-> type, to |-> to, gasPrice |-> gasPrice, maxFeePerGas |-> maxFee,
     maxPriorityFeePerGas |-> maxPriority, accessList |-> accessList]
TxInputs ==
    {Tx(0, to, Val(5), Undefined, Undefined, Undefined) : to \in BOOLEAN}
    \cup {Tx(1, TRUE, Val(5), Undefined, Undefined, al) : al \in {Undefined, Val("list")}}
    \cup {Tx(2, TRUE, Undefined, mf, mp, Val("list")) :
            mf \in {Undefined, Null, Val(7)}, mp \in {Undefined, Null, Val(3)}}
\* signMessage's msg: {payload, protocol}, or a bare message
MsgInputs ==
    {[payload |-> Val("typed"), protocol |-> Val("eip712")],
     [payload |-> Undefined, protocol |-> Undefined]}
\* what sdkSession.sign calls back with
Sigs == {Null} \cup {Val([v |-> v, r |-> r, s |-> s]) :
                       v \in {Undefined, Val("1b")}, r \in {Undefined, Val("r")},
                       s \in {Undefined, Val("s")}}
SignResponses == {[tx |-> t, sig |-> g] : t \in {Undefined, Val("payload")}, g \in Sigs}

\* FindAccount whose addrIdx starts at the last cached address, not at null
FindAccountDefaultingToLast(addrs, address) ==
    LET hits == {k \in 1..Len(addrs) : ToLowerCase(address) = ToLowerCase(addrs[k])}
    IN  IF hits = {} THEN Len(addrs) ELSE CHOOSE k \in hits : \A m \in hits : m <= k
\* addrs.forEach of _unlockAndFindAccount: the position of the last cached
\* address equal to `address` once both are lower-cased, 0 when there is none
FindAccount(addrs, address) ==
    LET hits == {k \in 1..Len(addrs) : ToLowerCase(address) = ToLowerCase(addrs[k])}
    IN  IF hits = {} THEN 0 ELSE CHOOSE k \in hits : \A m \in hits : m <= k
\* resolve(this.accountIndices[addrIdx])
AccountIndexOf(k) == accountIndices[k]

\* ForceLegacyTx that looks at the minor version only
ForceLegacyTxMinorOnly(fw) == fw[2] < FirstFullMinor
\* ForceLegacyTx with the minor version compared by <=
ForceLegacyTxUpTo11(fw) == fw[3] < FirstFullMajor /\ fw[2] <= FirstFullMinor
\* const forceLegacyTx = fwVersion[2] < 1 && fwVersion[1] < 11, fwVersion
\* being [fix, minor, major, reserved] counted from 0
ForceLegacyTx(fw) == fw[3] < FirstFullMajor /\ fw[2] < FirstFullMinor

\* the switch on tx._type in signTransaction
TypedTxData(tx, signerPath) ==
    LET base == [to |-> Val("to"), signerPath |-> signerPath, type |-> Undefined,
                 gasPrice |-> Undefined, maxFeePerGas |-> Undefined,
                 maxPriorityFeePerGas |-> Undefined, accessList |-> Undefined,
                 revertToLegacy |-> Undefined]
        accessList == IF IsNullish(tx.accessList) THEN Val("[]") ELSE tx.accessList
    IN  IF tx.type = 2
        THEN [base EXCEPT !.maxPriorityFeePerGas = HexOf(tx.maxPriorityFeePerGas),
                          !.maxFeePerGas = HexOf(tx.maxFeePerGas),
                          !.accessList = accessList, !.type = Val(2)]
        ELSE IF tx.type = 1
        THEN [base EXCEPT !.accessList = accessList, !.gasPrice = HexOf(tx.gasPrice),
                          !.type = Val(1)]
        ELSE [base EXCEPT !.gasPrice = HexOf(tx.gasPrice), !.type = Null]

\* the rewrite to legacy for firmware before 0.11.0
DowngradedTxData(txData, fw) ==
    IF ForceLegacyTx(fw) /\ txData.type = Val(2)
    THEN [txData EXCEPT !.gasPrice = txData.maxFeePerGas, !.revertToLegacy = Val(TRUE),
                        !.type = Undefined, !.maxFeePerGas = Undefined,
                        !.maxPriorityFeePerGas = Undefined, !.accessList = Undefined]
    ELSE IF ForceLegacyTx(fw) /\ txData.type = Val(1)
    THEN [txData EXCEPT !.revertToLegacy = Val(TRUE), !.type = Undefined,
                        !.accessList = Undefined]
    ELSE txData

\* TxDataError without the check of the EIP-1559 fee fields
TxDataErrorWithoutFeeCheck(tx) ==
    IF ~tx.to
    THEN "Contract deployment is not supported by the Lattice at this time."
    ELSE IF PathThrows(hdPath) THEN "Only HD paths with up to 5 indices are allowed."
    ELSE ""
\* the error signTransaction raises before it asks for the signature
TxDataError(tx) ==
    IF ~tx.to
    THEN "Contract deployment is not supported by the Lattice at this time."
    ELSE IF PathThrows(hdPath) THEN "Only HD paths with up to 5 indices are allowed."
    ELSE IF tx.type = 2 /\ (IsNullish(tx.maxPriorityFeePerGas) \/ IsNullish(tx.maxFeePerGas))
    THEN "maxPriorityFeePerGas and maxFeePerGas must be included for EIP1559 transactions."
    ELSE ""
\* the request data signTransaction builds for the account index addrIdx
TxData(tx, addrIdx, fw) ==
    DowngradedTxData(TypedTxData(tx, GetHDPathIndices(hdPath, addrIdx)), fw)

\* signTransaction(address, tx)
CallSignTransaction(address, tx) ==
    /\ pc = "idle"
    /\ op' = [NoOp EXCEPT !.kind = "signTransaction", !.updateData = FALSE,
                          !.address = Val(address), !.tx = Val(tx)]
    /\ pre' = Snapshot
    /\ BeginUnlock
    /\ UNCHANGED <<appName, accounts, accountIndices, walletUID, page,
                   unlockedAccount, hdPath, deviceVars, connect, signReq, fetchedIdx, unlocked, returned>>

\* signMessage(address, msg)
CallSignMessage(address, msg) ==
    /\ pc = "idle"
    /\ op' = [NoOp EXCEPT !.kind = "signMessage", !.updateData = FALSE,
                          !.address = Val(address), !.tx = Val(msg)]
    /\ pre' = Snapshot
    /\ BeginUnlock
    /\ UNCHANGED <<appName, accounts, accountIndices, walletUID, page,
                   unlockedAccount, hdPath, deviceVars, connect, signReq, fetchedIdx, unlocked, returned>>

\* unlock(false) has resolved inside signTransaction: the signer is looked
\* up, the request is built and sdkSession.sign is called
SignTransactionAfterConnect ==
    /\ pc = "connect"
    /\ op.kind = "signTransaction"
    /\ ConnectError(FALSE) = ""
    /\ ApplyConnect(FALSE)
    /\ LET k == FindAccount(accounts, op.address[2])
           tx == op.tx[2]
       IN  IF k = 0
           THEN /\ pc' = "done" /\ result' = Rejected("Signer not present")
                /\ UNCHANGED <<calls, signReq>>
           ELSE IF TxDataError(tx) # ""
           THEN /\ pc' = "done" /\ result' = Rejected(TxDataError(tx))
                /\ UNCHANGED <<calls, signReq>>
           ELSE IF ~HasSessionOf(sdkSession, walletUID)
           THEN /\ pc' = "done"
                /\ result' = Rejected("No SDK session started. Cannot sign transaction.")
                /\ UNCHANGED <<calls, signReq>>
           ELSE /\ pc' = "sign"
                /\ result' = Pending
                /\ signReq' = Val(TxData(tx, AccountIndexOf(k), FwVersion))
                /\ calls' = Append(calls, Call("sign", GetHDPathIndices(hdPath, AccountIndexOf(k)), 0))
    /\ UNCHANGED <<creds, appName, accountIndices, sdkSession, page, unlockedAccount,
                   hdPath, deviceVars, op, pre>>

\* the same inside signMessage
SignMessageAfterConnect ==
    /\ pc = "connect"
    /\ op.kind = "signMessage"
    /\ ConnectError(FALSE) = ""
    /\ ApplyConnect(FALSE)
    /\ LET k == FindAccount(accounts, op.address[2])
           msg == op.tx[2]
           bare == IsNullish(msg.payload) \/ IsNullish(msg.protocol)
       IN  IF k = 0
           THEN /\ pc' = "done" /\ result' = Rejected("Signer not present")
                /\ UNCHANGED <<calls, signReq>>
           ELSE IF PathThrows(hdPath)
           THEN /\ pc' = "done"
                /\ result' = Rejected("Only HD paths with up to 5 indices are allowed.")
                /\ UNCHANGED <<calls, signReq>>
           ELSE IF ~HasSessionOf(sdkSession, walletUID)
           THEN /\ pc' = "done"
                /\ result' = Rejected("No SDK session started. Cannot sign transaction.")
                /\ UNCHANGED <<calls, signReq>>
           ELSE /\ pc' = "sign"
                /\ result' = Pending
                /\ signReq' = Val([protocol |-> IF bare THEN Val("signPersonal") ELSE msg.protocol,
                                   payload |-> IF bare THEN Val(msg) ELSE msg.payload,
                                   signerPath |-> GetHDPathIndices(hdPath, AccountIndexOf(k))])
                /\ calls' = Append(calls, Call("sign", GetHDPathIndices(hdPath, AccountIndexOf(k)), 0))
    /\ UNCHANGED <<creds, appName, accountIndices, sdkSession, page, unlockedAccount,
                   hdPath, deviceVars, op, pre>>

\* sdkSession.sign fails
SignFailed ==
    /\ pc = "sign"
    /\ pc' = "done"
    /\ result' = Rejected("sign failed")
    /\ returned' = returned + 1
    /\ UNCHANGED <<keyringVars, deviceVars, op, calls, pre, connect, signReq, fetchedIdx, unlocked>>

\* SigComplete that does not look at s
SigCompleteWithoutS(sig) ==
    /\ ~IsNullish(sig)
    /\ ~IsNullish(sig[2].v) /\ ~IsNullish(sig[2].r)
\* signedTx.sig && signedTx.sig.v && signedTx.sig.r && signedTx.sig.s
SigComplete(sig) ==
    /\ ~IsNullish(sig)
    /\ ~IsNullish(sig[2].v) /\ ~IsNullish(sig[2].r) /\ ~IsNullish(sig[2].s)

\* sdkSession.sign returns res to _signTxData, and signTransaction rebuilds
\* the transaction; codecOk tells whether TransactionFactory accepts it
TransactionSigned(res, codecOk) ==
    /\ pc = "sign"
    /\ op.kind = "signTransaction"
    /\ pc' = "done"
    /\ result' =
         IF IsNullish(res.tx) THEN Rejected("No transaction payload returned.")
         ELSE IF ~SigComplete(res.sig) THEN Rejected("No signature returned.")
         ELSE IF ~codecOk THEN Rejected("invalid transaction")
         ELSE Resolved(<<[type |-> IF signReq[2].revertToLegacy = Val(TRUE)
                                   THEN Val(0) ELSE signReq[2].type,
                          gasPrice |-> IF signReq[2].revertToLegacy = Val(TRUE)
                                       THEN signReq[2].gasPrice
                                       ELSE IF IsNullish(op.tx[2].gasPrice) THEN Undefined
                                       ELSE HexOf(op.tx[2].gasPrice),
                          sig |-> res.sig[2]]>>)
    /\ op' = [op EXCEPT !.res = Val(res)]
    /\ returned' = returned + 1
    /\ UNCHANGED <<keyringVars, deviceVars, calls, pre, connect, signReq, fetchedIdx, unlocked>>

\* sdkSession.sign returns res to signMessage
MessageSigned(res) ==
    /\ pc = "sign"
    /\ op.kind = "signMessage"
    /\ pc' = "done"
    /\ result' =
         IF IsNullish(res.sig) THEN Rejected("No signature returned")
         ELSE IF IsNullish(res.sig[2].v) THEN Rejected("Invalid signature format returned.")
         ELSE Resolved(<<"0x", res.sig[2].r, res.sig[2].s, res.sig[2].v>>)
    /\ op' = [op EXCEPT !.res = Val(res)]
    /\ returned' = returned + 1
    /\ UNCHANGED <<keyringVars, deviceVars, calls, pre, connect, signReq, fetchedIdx, unlocked>>

\* ------------------------------------------------------- the specification
\* the addresses a caller asks to sign with: the cached ones, as cached or
\* lower-cased, and the first address of each wallet
SignAddresses ==
    {accounts[k] : k \in 1..Len(accounts)}
    \cup {ToLowerCase(accounts[k]) : k \in 1..Len(accounts)}
    \cup {Address(w, GetHDPathIndices(STANDARD_HD_PATH, 0)) : w \in Wallets}

AnyWallet == {Null} \cup {Val(w) : w \in Wallets}

\* Spec: the account cache through unlock, addAccounts, signing and reset,
\* with one firmware, two path templates (batch and recursive fetch) and a
\* few transactions.
LifecycleFw == {<<0, FirstFullMinor - 1, 0, 0>>}
LifecyclePaths == {STANDARD_HD_PATH, LEDGER_LIVE_PATH}
LifecycleTx ==
    {Tx(0, TRUE, Val(5), Undefined, Undefined, Undefined),
     Tx(2, TRUE, Undefined, Null, Val(3), Val("list"))}
LifecycleMsg == {[payload |-> Val("typed"), protocol |-> Val("eip712")]}
LifecycleSigs ==
    {[tx |-> Val("payload"), sig |-> Val([v |-> Val("1b"), r |-> Val("r"), s |-> Val("s")])],
     [tx |-> Val("payload"), sig |-> Null]}

Init == InitWith(LifecycleFw)

\* Spec: unlock, addAccounts(1), setAccountToUnlock, signTransaction and
\* signMessage on the standard HD path, with the SafeCard changed at any time.
Next ==
    \/ \E u \in BOOLEAN : CallUnlock(u)
    \/ CredsClosed
    \/ \E d \in CredsData : CredsReceived(d)
    \/ \E e \in BOOLEAN : ConnectRejected(e)
    \/ UnlockConnected
    \/ CallAddAccounts(1)
    \/ FetchAfterConnect
    \/ \E e \in BOOLEAN : FetchFailed(e)
    \/ AddAccountsFetched
    \/ ForgetDevice
    \/ \E i \in 0..MaxIndex : SetAccountToUnlock(i)
    \/ \E a \in SignAddresses, tx \in LifecycleTx : CallSignTransaction(a, tx)
    \/ \E a \in SignAddresses, m \in LifecycleMsg : CallSignMessage(a, m)
    \/ SignTransactionAfterConnect
    \/ SignMessageAfterConnect
    \/ SignFailed
    \/ \E r \in LifecycleSigs : TransactionSigned(r, TRUE)
    \/ \E r \in LifecycleSigs : MessageSigned(r)
    \/ Settle
    \/ \E w \in AnyWallet : SwapWallet(w)

Spec == Init /\ [][Next]_vars

\* SpecAccounts: the account cache filled by addAccounts(n) from any
\* unlockedAccount and on both kinds of HD path, without signing.
NextAccounts ==
    \/ \E u \in BOOLEAN : CallUnlock(u)
    \/ CredsClosed
    \/ \E d \in CredsData : CredsReceived(d)
    \/ \E e \in BOOLEAN : ConnectRejected(e)
    \/ UnlockConnected
    \/ \E n \in 1..MaxN : CallAddAccounts(n)
    \/ \E n \in {-1, 0} : AddAccountsNonPositive(n)
    \/ AddAccountsClose
    \/ FetchAfterConnect
    \/ \E e \in BOOLEAN : FetchFailed(e)
    \/ FetchRecursed
    \/ AddAccountsFetched
    \/ ForgetDevice
    \/ \E a \in SignAddresses : RemoveAccount(a)
    \/ \E i \in 0..MaxIndex : SetAccountToUnlock(i)
    \/ \E p \in LifecyclePaths : SetHdPath(p)
    \/ Settle
    \/ \E w \in AnyWallet : SwapWallet(w)

SpecAccounts == Init /\ [][NextAccounts]_vars

\* SpecFetch: addAccounts(n) and getFirstPage from any unlockedAccount on
\* every path template, with the wallet the device had at construction.
NextFetch ==
    \/ CallUnlock(TRUE)
    \/ CredsClosed
    \/ \E d \in CredsData : CredsReceived(d)
    \/ \E e \in BOOLEAN : ConnectRejected(e)
    \/ UnlockConnected
    \/ \E n \in 1..MaxN : CallAddAccounts(n)
    \/ GetFirstPage
    \/ FetchAfterConnect
    \/ \E e \in BOOLEAN : FetchFailed(e)
    \/ FetchRecursed
    \/ AddAccountsFetched
    \/ PageFetched
    \/ ForgetDevice
    \/ \E i \in 0..MaxIndex : SetAccountToUnlock(i)
    \/ \E p \in Paths : SetHdPath(p)
    \/ Settle

SpecFetch == Init /\ [][NextFetch]_vars

\* SpecPaging: the same keyring browsed page by page, without signing.
NextPaging ==
    \/ \E u \in BOOLEAN : CallUnlock(u)
    \/ CredsClosed
    \/ \E d \in CredsData : CredsReceived(d)
    \/ \E e \in BOOLEAN : ConnectRejected(e)
    \/ UnlockConnected
    \/ CallAddAccounts(1)
    \/ AddAccountsClose
    \/ GetFirstPage
    \/ GetNextPage
    \/ GetPreviousPage
    \/ FetchAfterConnect
    \/ \E e \in BOOLEAN : FetchFailed(e)
    \/ FetchRecursed
    \/ AddAccountsFetched
    \/ PageFetched
    \/ ForgetDevice
    \/ \E a \in SignAddresses : RemoveAccount(a)
    \/ \E p \in LifecyclePaths : SetHdPath(p)
    \/ Settle
    \/ \E w \in AnyWallet : SwapWallet(w)

SpecPaging == Init /\ [][NextPaging]_vars

\* SpecSigning: signTransaction over every firmware version, transaction
\* and sign response, for a keyring with at most one cached account.
InitSigning == InitWith(FwVersions)

NextSigning ==
    \/ CallUnlock(TRUE)
    \/ CredsClosed
    \/ \E d \in CredsData : CredsReceived(d)
    \/ \E e \in BOOLEAN : ConnectRejected(e)
    \/ UnlockConnected
    \/ CallAddAccounts(1)
    \/ FetchAfterConnect
    \/ \E e \in BOOLEAN : FetchFailed(e)
    \/ AddAccountsFetched
    \/ ForgetDevice
    \/ \E p \in {STANDARD_HD_PATH, LONG_PATH} : SetHdPath(p)
    \/ \E a \in SignAddresses, tx \in TxInputs : CallSignTransaction(a, tx)
    \/ SignTransactionAfterConnect
    \/ SignFailed
    \/ \E r \in SignResponses, ok \in BOOLEAN : TransactionSigned(r, ok)
    \/ Settle
    \/ \E w \in AnyWallet : SwapWallet(w)

SpecSigning == InitSigning /\ [][NextSigning]_vars

\* SpecCalls: every method that talks to the device (unlock, addAccounts,
\* the three page methods, signTransaction and signMessage) on both kinds
\* of HD path, with the wallet the device had at construction.
NextCalls ==
    \/ CallUnlock(TRUE)
    \/ CredsClosed
    \/ \E d \in CredsData : CredsReceived(d)
    \/ \E e \in BOOLEAN : ConnectRejected(e)
    \/ UnlockConnected
    \/ \E n \in 1..MaxN : CallAddAccounts(n)
    \/ GetFirstPage
    \/ GetNextPage
    \/ GetPreviousPage
    \/ FetchAfterConnect
    \/ \E e \in BOOLEAN : FetchFailed(e)
    \/ FetchRecursed
    \/ AddAccountsFetched
    \/ PageFetched
    \/ \E p \in LifecyclePaths : SetHdPath(p)
    \/ \E a \in SignAddresses, tx \in LifecycleTx : CallSignTransaction(a, tx)
    \/ \E a \in SignAddresses, m \in LifecycleMsg : CallSignMessage(a, m)
    \/ SignTransactionAfterConnect
    \/ SignMessageAfterConnect
    \/ SignFailed
    \/ \E r \in LifecycleSigs : TransactionSigned(r, TRUE)
    \/ \E r \in LifecycleSigs : MessageSigned(r)
    \/ Settle

SpecCalls == Init /\ [][NextCalls]_vars

\* ------------------------------------------------------------------ claims
SignKinds == {"signTransaction", "signMessage"}
CallsOf(name) == {k \in 1..Len(calls) : calls[k].call = name}
\* the connect of the operation in flight reported a wallet identity other
\* than the one cached when the operation was called
SawOtherWallet == ~IsNullish(connect.uid) /\ connect.uid # pre.walletUID
SawCachedWallet == ~IsNullish(connect.uid) /\ connect.uid = pre.walletUID

\* C1: when the connect that precedes signing reports a wallet identity
\* other than the cached walletUID, signTransaction and signMessage reject
\* with 'Wallet has changed' and no sign request has been sent.
C1_NoSignAfterWalletChange ==
    (op.kind \in SignKinds /\ SawOtherWallet) =>
        /\ pc = "done"
        /\ result = Rejected("Wallet has changed! Please reconnect.")
        /\ CallsOf("sign") = {}
        /\ signReq = Null
\* a cached signer is asked to sign a transaction after the card was swapped
C1_Witness ==
    /\ pc = "done"
    /\ op.kind = "signTransaction"
    /\ Len(accounts) > 0 /\ op.address[2] = accounts[1]
    /\ walletUID = Val("A") /\ connect.uid = Val("B")
    /\ result.status = "rejected"

\* C2: when unlock(false) observes a wallet identity other than the cached
\* one, the call rejects and accounts, accountIndices and walletUID are what
\* they were before the call.
C2_StaleUnlockChangesNothing ==
    (~op.updateData /\ SawOtherWallet) =>
        /\ pc = "done"
        /\ result.status = "rejected"
        /\ accounts = pre.accounts
        /\ accountIndices = pre.accountIndices
        /\ walletUID = pre.walletUID
\* unlock(false) with a filled cache, after the card was swapped
C2_Witness ==
    /\ pc = "done"
    /\ op.kind = "unlock" /\ ~op.updateData
    /\ pre.accounts # <<>> /\ pre.walletUID = Val("A") /\ connect.uid = Val("B")
    /\ result.status = "rejected"

\* C3: with updateData=true a connect clears the account cache exactly when
\* the live identity differs from the cached one (so over the live
\* identities A, A, B once, at A to B); a connect that sees the cached
\* identity changes neither accounts nor walletUID; afterwards walletUID is
\* the live identity, and the connect has fetched no address.
C3_ClearedIffWalletChanged ==
    (op.updateData /\ ~IsNullish(connect.uid)) =>
        /\ connect.cleared <=> connect.uid # pre.walletUID
        /\ walletUID = connect.uid
        /\ (op.kind = "unlock" \/ pc = "fetch") =>
               accounts = IF connect.uid = pre.walletUID THEN pre.accounts ELSE <<>>
        /\ op.kind = "unlock" => CallsOf("getAddresses") = {}
\* unlock() finds wallet B where A was cached with accounts: the cache is
\* cleared and walletUID becomes B
C3_Witness ==
    /\ pc = "done"
    /\ op.kind = "unlock" /\ op.updateData
    /\ pre.walletUID = Val("A") /\ pre.accounts # <<>>
    /\ connect.uid = Val("B") /\ connect.cleared
    /\ accounts = <<>> /\ walletUID = Val("B")
\* unlock() finds the cached wallet A again: nothing is cleared
C3_WitnessSame ==
    /\ pc = "done"
    /\ op.kind = "unlock" /\ op.updateData
    /\ pre.walletUID = Val("A") /\ pre.accounts # <<>>
    /\ connect.uid = Val("A") /\ ~connect.cleared
    /\ accounts = pre.accounts

\* C4: the signerPath of a sign request is the HD path resolved at the
\* derivation index the signer's address was fetched at, whatever addAccounts,
\* setAccountToUnlock and wallet changes came before.
C4_SignerPathOfFetchIndex ==
    (pc = "sign" /\ op.kind \in SignKinds) =>
        signReq[2].signerPath =
            GetHDPathIndices(hdPath, fetchedIdx[FindAccount(accounts, op.address[2])])

\* C5: every cached address was returned by the device while its active
\* wallet was the one cached as walletUID, also when the wallet changes
\* between the steps of addAccounts.
C5_CacheOfCachedWallet ==
    \A k \in 1..Len(accounts) : Val(accounts[k].w) = walletUID

\* C6: for firmware 0.x an EIP-1559 transaction is rewritten to legacy
\* exactly when minor < 11, whatever the fix version: gasPrice is the
\* original maxFeePerGas, revertToLegacy is true and type, maxFeePerGas,
\* maxPriorityFeePerGas and accessList are removed; from 0.11.0 on the
\* request keeps type 2 and carries no revertToLegacy.  An EIP-2930
\* transaction below 0.11 loses accessList and type and keeps its gasPrice.
C6_DowngradeBelow011 ==
    (pc = "sign" /\ op.kind = "signTransaction" /\ devFw[3] = 0) =>
        LET tx == op.tx[2]
            req == signReq[2]
        IN  /\ (tx.type = 2 /\ devFw[2] < 11) =>
                   /\ req.gasPrice = HexOf(tx.maxFeePerGas)
                   /\ req.revertToLegacy = Val(TRUE)
                   /\ req.type = Undefined
                   /\ req.maxFeePerGas = Undefined
                   /\ req.maxPriorityFeePerGas = Undefined
                   /\ req.accessList = Undefined
            /\ (tx.type = 2 /\ devFw[2] >= 11) =>
                   /\ req.type = Val(2)
                   /\ req.revertToLegacy = Undefined
                   /\ req.maxFeePerGas = HexOf(tx.maxFeePerGas)
                   /\ req.gasPrice = Undefined
            /\ (tx.type = 1 /\ devFw[2] < 11) =>
                   /\ req.accessList = Undefined
                   /\ req.type = Undefined
                   /\ req.gasPrice = HexOf(tx.gasPrice)
\* an EIP-1559 transaction is sent to firmware 0.10.1 as a legacy one
C6_Witness ==
    /\ pc = "sign" /\ op.kind = "signTransaction"
    /\ devFw = <<1, 10, 0, 0>>
    /\ op.tx[2].type = 2
    /\ signReq[2].revertToLegacy = Val(TRUE)
    /\ signReq[2].gasPrice = HexOf(Val(7))
\* the same transaction is sent to firmware 0.11.0 as it is
C6_WitnessKept ==
    /\ pc = "sign" /\ op.kind = "signTransaction"
    /\ devFw = <<0, 11, 0, 0>>
    /\ op.tx[2].type = 2
    /\ signReq[2].type = Val(2)

\* C7: signTransaction of an EIP-1559 transaction without maxFeePerGas or
\* maxPriorityFeePerGas raises the validation error before any call to the
\* device session: no connect, getAddresses or sign has been issued.
FeeMissing(tx) ==
    tx.type = 2 /\ (IsNullish(tx.maxFeePerGas) \/ IsNullish(tx.maxPriorityFeePerGas))
FeeError ==
    "maxPriorityFeePerGas and maxFeePerGas must be included for EIP1559 transactions."
C7_ValidationBeforeAnyDeviceCall ==
    (op.kind = "signTransaction" /\ result = Rejected(FeeError)) =>
        CallsOf("connect") \cup CallsOf("getAddresses") \cup CallsOf("sign") = {}
\* C7 as amended: such a signTransaction always rejects and sends neither a
\* getAddresses nor a sign request; the validation error is raised after the
\* one connect of unlock(false) has been sent and has reported the cached
\* wallet.
C7_ValidationBeforeSign ==
    (op.kind = "signTransaction" /\ FeeMissing(op.tx[2])) =>
        /\ pc # "sign"
        /\ signReq = Null
        /\ CallsOf("sign") \cup CallsOf("getAddresses") = {}
        /\ pc = "done" => result.status = "rejected"
        /\ result = Rejected(FeeError) =>
               /\ Cardinality(CallsOf("connect")) = 1
               /\ SawCachedWallet
\* the validation error, raised for a cached signer after the connect
C7_Witness ==
    /\ pc = "done" /\ op.kind = "signTransaction"
    /\ IsNullish(op.tx[2].maxFeePerGas)
    /\ result = Rejected(FeeError)
    /\ Cardinality(CallsOf("connect")) = 1

\* C8: forgetDevice, removeAccount and addAccounts(-1000) leave the
\* credentials null, no session, accounts and accountIndices empty, walletUID
\* null and page 0, and call neither the device nor the popup;
\* addAccounts(-1000) resolves with the empty list; isUnlocked stays false
\* until an unlock has resolved again.
Forgetting ==
    \/ op.kind \in {"forgetDevice", "removeAccount"}
    \/ op.kind = "addAccounts" /\ op.n = CLOSE_CODE
C8_ForgetClearsEverything ==
    /\ (pc = "done" /\ Forgetting) =>
           /\ creds = NoCreds /\ sdkSession = Null
           /\ accounts = <<>> /\ accountIndices = <<>>
           /\ walletUID = Null /\ page = 0
           /\ calls = <<>>
           /\ ~IsUnlocked
           /\ op.kind = "addAccounts" => result = Resolved(<<>>)
    /\ IsUnlocked => unlocked
\* forgetDevice on an unlocked keyring with a cached account, on page 1
C8_Witness ==
    /\ pc = "done" /\ op.kind = "forgetDevice"
    /\ pre.accounts # <<>> /\ pre.walletUID # Null /\ pre.page = 1
    /\ creds = NoCreds /\ page = 0
\* addAccounts(-1000) on such a keyring
C8_WitnessCloseCode ==
    /\ pc = "done" /\ op.kind = "addAccounts" /\ op.n = CLOSE_CODE
    /\ pre.accounts # <<>> /\ pre.walletUID # Null
    /\ result = Resolved(<<>>)

\* C9: when addAccounts(n) rejects, accountIndices has gained no entry and
\* the cache holds no address the call fetched (but one it held before): it
\* is the cache of before the call, or empty when the connect cleared it.  A
\* failure at the k-th recursive fetch drops the k-1 addresses fetched.
InSeq(seq, x) == \E k \in 1..Len(seq) : seq[k] = x
C9_RejectedAddAccountsStoresNothing ==
    (pc = "done" /\ op.kind = "addAccounts" /\ result.status = "rejected") =>
        /\ accountIndices = pre.accountIndices
        /\ accounts = IF connect.cleared THEN <<>> ELSE pre.accounts
        /\ \A k \in 1..Len(op.recursedAddrs) :
               InSeq(accounts, op.recursedAddrs[k]) => InSeq(pre.accounts, op.recursedAddrs[k])
\* the second recursive fetch fails after the first has returned an address
C9_Witness ==
    /\ pc = "done" /\ op.kind = "addAccounts" /\ result.status = "rejected"
    /\ Len(op.recursedAddrs) = 1
    /\ Cardinality(CallsOf("getAddresses")) = 2
    /\ ~InSeq(accounts, op.recursedAddrs[1])

\* C10: accountIndices is strictly increasing along the cache, after any
\* setAccountToUnlock and addAccounts calls (stated for the states in which
\* every index belongs to a cached address of the cached wallet).
StrictlyIncreasing(seq) == \A j, k \in 1..Len(seq) : j < k => seq[j] < seq[k]
C10_IndicesIncreasing ==
    (/\ Len(accounts) = Len(accountIndices)
     /\ \A k \in 1..Len(accounts) : Val(accounts[k].w) = walletUID)
        => StrictlyIncreasing(accountIndices)
\* C10 as amended: the indices one addAccounts(n) call appends are strictly
\* increasing and lie in unlockedAccount .. unlockedAccount + n - 1, after
\* the entries that were there before; entries of different calls follow
\* the order of the calls.
C10_IndicesIncreasingWithinCall ==
    (pc = "done" /\ op.kind = "addAccounts" /\ result.status = "resolved"
        /\ op.n # CLOSE_CODE) =>
        LET old == Len(pre.accountIndices)
            added == SubSeq(accountIndices, old + 1, Len(accountIndices))
            n == op.n + Len(op.recursedAddrs)
        IN  /\ Len(accountIndices) >= old
            /\ SubSeq(accountIndices, 1, old) = pre.accountIndices
            /\ StrictlyIncreasing(added)
            /\ \A k \in 1..Len(added) :
                   added[k] >= unlockedAccount /\ added[k] < unlockedAccount + n
\* one call has appended two indices
C10_Witness ==
    /\ pc = "done" /\ op.kind = "addAccounts" /\ result.status = "resolved"
    /\ Len(accountIndices) = Len(pre.accountIndices) + 2

\* C11: the account cache never holds the same address value twice: an
\* address the device returns that is already cached is not appended again,
\* also when it was fetched at another derivation index.
C11_NoDuplicateAddress ==
    /\ \A j, k \in 1..Len(accounts) : j # k => accounts[j] # accounts[k]
    /\ (pc = "done" /\ op.kind = "addAccounts" /\ result.status = "resolved"
           /\ op.n # CLOSE_CODE) =>
           \A k \in 1..Len(accounts) :
               k > Len(pre.accounts) => ~InSeq(pre.accounts, accounts[k])
\* addAccounts(1) at index 0 of m/44'/60'/0'/x/1 returns the address cached
\* at index 1 of the standard path: nothing is appended
C11_Witness ==
    /\ pc = "done" /\ op.kind = "addAccounts" /\ result.status = "resolved"
    /\ hdPath = INNER_PATH /\ unlockedAccount = 0
    /\ Len(calls) > 0 /\ LastCall.call = "getAddresses"
    /\ accounts = pre.accounts /\ Len(accounts) = 1
    /\ accountIndices = <<1>>
    /\ accounts[1] = Address(devWallet[2], LastCall.path)

\* C12: addAccounts(n) on an empty cache with the standard path and start
\* index s sends one request, resolves with the n addresses of indices
\* s .. s+n-1 in that order and leaves accountIndices = [s, ..., s+n-1].
C12_AddOnEmptyCache ==
    (/\ pc = "done" /\ op.kind = "addAccounts" /\ result.status = "resolved"
     /\ op.n # CLOSE_CODE
     /\ pre.accounts = <<>> /\ pre.accountIndices = <<>>
     /\ hdPath = STANDARD_HD_PATH) =>
        LET n == op.n
            s == unlockedAccount
        IN  /\ Cardinality(CallsOf("getAddresses")) = 1
            /\ LastCall = Call("getAddresses", GetHDPathIndices(STANDARD_HD_PATH, s), n)
            /\ accounts = [k \in 1..n |->
                   Address(devWallet[2], GetHDPathIndices(STANDARD_HD_PATH, s + (k - 1)))]
            /\ result.value = accounts
            /\ accountIndices = [k \in 1..n |-> s + (k - 1)]
\* two accounts added to a new keyring: indices [0, 1]
C12_Witness ==
    /\ pc = "done" /\ op.kind = "addAccounts" /\ result.status = "resolved"
    /\ pre.accounts = <<>> /\ pre.accountIndices = <<>>
    /\ hdPath = STANDARD_HD_PATH /\ unlockedAccount = 0 /\ op.n = 2
    /\ accountIndices = <<0, 1>>
    /\ Len(accounts) = 2 /\ accounts[1] # accounts[2]
\* one account added from start index 1
C12_WitnessFromOne ==
    /\ pc = "done" /\ op.kind = "addAccounts" /\ result.status = "resolved"
    /\ pre.accounts = <<>> /\ pre.accountIndices = <<>>
    /\ hdPath = STANDARD_HD_PATH /\ unlockedAccount = 1
    /\ accountIndices = <<1>>

\* C13: a method that unlocks opens the credential popup once when the
\* keyring holds no credentials and not at all when it holds some: once
\* credentials are acquired no unlock, addAccounts or signing call opens it
\* again until forgetDevice, a failed connect in between included.
UsesUnlock ==
    \/ op.kind \in {"unlock", "getPage", "signTransaction", "signMessage"}
    \/ op.kind = "addAccounts" /\ op.n > 0
CredsExist(c) == c.deviceID # Null /\ c.password # Null
C13_CredsAcquiredOnce ==
    (pc # "idle" /\ UsesUnlock) =>
        Cardinality(CallsOf("getCreds")) = IF CredsExist(pre.creds) THEN 0 ELSE 1
\* the same for a keyring constructed with an appName
C13_CredsAcquiredOnceWhenNamed ==
    ~IsNullish(appName) => C13_CredsAcquiredOnce
\* an unlock after a connect failure, with the credentials acquired before
C13_WitnessWhenNamed ==
    /\ pc = "done" /\ op.kind = "unlock" /\ result.status = "resolved"
    /\ CredsExist(pre.creds) /\ pre.walletUID = Null /\ pre.sdkSession # Null
    /\ CallsOf("getCreds") = {}

\* C14: the resolver returns one index per segment (a fixed segment its
\* value, a marker segment the account index i, each plus 0x80000000 when
\* hardened), appends i exactly when no segment holds the marker, and
\* returns at most 5 indices or raises an error, with no request sent, when
\* there would be more.
Hard(n) == Index(1, n)
Soft(n) == Index(0, n)
\* the indices of each template at account index i, written out by hand
ExpectedIndices(path, i) ==
    CASE path = STANDARD_HD_PATH -> <<Hard(44), Hard(60), Hard(0), Soft(0), Soft(i)>>
      [] path = LEDGER_LIVE_PATH -> <<Hard(44), Hard(60), Hard(i), Soft(0), Soft(0)>>
      [] path = LEDGER_LEGACY_PATH -> <<Hard(44), Hard(60), Hard(0), Soft(i)>>
      [] path = INNER_PATH -> <<Hard(44), Hard(60), Hard(0), Soft(i), Soft(1)>>
      [] path = LONG_PATH -> <<Hard(44), Hard(60), Hard(0), Soft(0), Soft(0), Soft(i)>>
TooLong(path) == Len(ExpectedIndices(path, 0)) > 5
\* the account index of the operation's first getAddresses request, and the
\* position of that request among its calls
StartIndex == op.i - Len(op.recursedAddrs)
FirstFetch == Len(calls) - Cardinality(CallsOf("getAddresses")) + 1
PathError == "Only HD paths with up to 5 indices are allowed."
C14_ResolvedIndices ==
    (pc # "idle" /\ op.kind \in {"addAccounts", "getPage"}) =>
        /\ \A k \in CallsOf("getAddresses") :
               /\ calls[k].path = ExpectedIndices(hdPath, StartIndex + (k - FirstFetch))
               /\ Len(calls[k].path) <= 5
        /\ TooLong(hdPath) =>
               /\ CallsOf("getAddresses") = {}
               /\ pc # "fetch"
               /\ (pc = "done" /\ ~IsNullish(connect.uid) /\ connect.uid = walletUID) =>
                      result = Rejected(PathError)
        /\ result = Rejected(PathError) => TooLong(hdPath)
\* the second request of a recursive fetch on m/44'/60'/x'/0/0 from index 1
C14_Witness ==
    /\ pc = "fetch" /\ hdPath = LEDGER_LIVE_PATH
    /\ StartIndex = 1 /\ Cardinality(CallsOf("getAddresses")) = 2
    /\ LastCall.path = <<Hard(44), Hard(60), Hard(2), Soft(0), Soft(0)>>
\* m/44'/60'/0' has no marker: index 1 is appended
C14_WitnessAppended ==
    /\ pc = "fetch" /\ hdPath = LEDGER_LEGACY_PATH
    /\ LastCall.path = <<Hard(44), Hard(60), Hard(0), Soft(1)>>
\* m/44'/60'/0'/0/0 would resolve to six indices: addAccounts rejects
C14_WitnessTooLong ==
    /\ pc = "done" /\ hdPath = LONG_PATH /\ op.kind = "addAccounts"
    /\ result = Rejected(PathError)
    /\ CallsOf("getAddresses") = {}

\* C15: accounts and accountIndices have the same length and
\* accountIndices[k] is the derivation index accounts[k] was fetched at,
\* also after a connect has seen a new wallet and cleared the cache and
\* after the addAccounts that follows.
C15_IndicesParallelToAccounts ==
    /\ Len(accountIndices) = Len(accounts)
    /\ accountIndices = fetchedIdx

\* C16: once a session handle exists no later unlock creates another one
\* (or derives the session key again) until forgetDevice, also when the
\* handle was created but the first connect failed.
C16_SessionCreatedOnce ==
    (pc # "idle" /\ UsesUnlock /\ pre.sdkSession # Null) =>
        CallsOf("newClient") = {}
\* C16 as amended: once a handle exists and a wallet identity has been
\* recorded, no unlock creates a handle until forgetDevice; while no wallet
\* identity is recorded, every unlock creates one, with the session key and
\* the URL of the one before.
C16_SessionKeptOnceConnected ==
    (pc # "idle" /\ UsesUnlock) =>
        /\ Cardinality(CallsOf("newClient")) <= 1
        /\ (pre.sdkSession # Null /\ pre.walletUID # Null) =>
               CallsOf("newClient") = {} /\ sdkSession = pre.sdkSession
        /\ (pre.sdkSession # Null /\ pre.walletUID = Null) =>
               /\ sdkSession = pre.sdkSession
               /\ CallsOf("connect") # {} => CallsOf("newClient") # {}
\* unlock on a connected keyring: the handle is the one it had
C16_Witness ==
    /\ pc = "done" /\ op.kind = "unlock" /\ result.status = "resolved"
    /\ pre.sdkSession # Null /\ pre.walletUID # Null
    /\ CallsOf("newClient") = {} /\ CallsOf("connect") # {}
\* unlock after a first connect that failed: a second client is created
C16_WitnessAfterFailedConnect ==
    /\ pc = "done" /\ op.kind = "unlock"
    /\ pre.sdkSession # Null /\ pre.walletUID = Null
    /\ CallsOf("newClient") # {}

\* C17: a fetch of n >= 1 addresses from index i sends, when the marker is
\* in a non-terminal segment, n requests of one address each at indices
\* i, i+1, ..., i+n-1, each after the one before has returned, and its
\* result is their answers in that order; otherwise it sends one request for
\* n addresses at index i.
MarkerInside(path) == path \in {LEDGER_LIVE_PATH, INNER_PATH}
Requested == op.n + Len(op.recursedAddrs)
FetchCalls == Cardinality(CallsOf("getAddresses"))
\* the addresses a fetch of n from index i returns, in order
ExpectedAddresses(path, i, n) ==
    IF MarkerInside(path)
    THEN [k \in 1..n |-> Address(devWallet[2], ExpectedIndices(path, i + (k - 1)))]
    ELSE LET first == ExpectedIndices(path, i)
         IN  [k \in 1..n |->
                 Address(devWallet[2],
                         [first EXCEPT ![Len(first)].low = first[Len(first)].low + (k - 1)])]
C17_FetchRequests ==
    (pc \in {"fetch", "done"} /\ op.kind \in {"addAccounts", "getPage"} /\ op.n > 0) =>
        /\ MarkerInside(hdPath) =>
               /\ FetchCalls <= Requested
               /\ pc = "fetch" => FetchCalls = Len(op.recursedAddrs) + 1
               /\ \A k \in CallsOf("getAddresses") :
                      calls[k] = Call("getAddresses",
                                      ExpectedIndices(hdPath, StartIndex + (k - FirstFetch)), 1)
               /\ (pc = "done" /\ result.status = "resolved") => FetchCalls = Requested
        /\ ~MarkerInside(hdPath) =>
               /\ FetchCalls <= 1
               /\ op.recursedAddrs = <<>>
               /\ \A k \in CallsOf("getAddresses") :
                      calls[k] = Call("getAddresses", ExpectedIndices(hdPath, op.i), op.n)
               /\ (pc = "fetch" \/ result.status = "resolved") => FetchCalls = 1
        /\ (pc = "done" /\ result.status = "resolved") =>
               LET addrs == ExpectedAddresses(hdPath, StartIndex, Requested)
               IN  /\ op.kind = "getPage" =>
                          /\ Len(result.value) = Requested
                          /\ \A k \in 1..Requested : result.value[k].address = addrs[k]
                   /\ (op.kind = "addAccounts" /\ pre.accounts = <<>>) =>
                          accounts = addrs /\ result.value = addrs
\* a page of m/44'/60'/x'/0/0: five requests of one address
C17_Witness ==
    /\ pc = "done" /\ op.kind = "getPage" /\ result.status = "resolved"
    /\ hdPath = LEDGER_LIVE_PATH
    /\ FetchCalls = 5 /\ Len(result.value) = 5
    /\ LastCall = Call("getAddresses", <<Hard(44), Hard(60), Hard(4), Soft(0), Soft(0)>>, 1)
\* two accounts of m/44'/60'/0' from index 1: one request of two addresses
C17_WitnessBatch ==
    /\ pc = "done" /\ op.kind = "addAccounts" /\ result.status = "resolved"
    /\ hdPath = LEDGER_LEGACY_PATH
    /\ FetchCalls = 1
    /\ LastCall = Call("getAddresses", <<Hard(44), Hard(60), Hard(0), Soft(1)>>, 2)
    /\ Len(accounts) = 2

\* C18: every step of unlock, addAccounts, signing and forgetDevice leaves
\* the account cache as it was with zero or more addresses appended, or
\* empty: no entry is reordered, replaced or removed on its own.
IsPrefix(a, b) == Len(a) <= Len(b) /\ SubSeq(b, 1, Len(a)) = a
C18_AppendOrClear ==
    [][IsPrefix(accounts, accounts') \/ accounts' = <<>>]_vars
\* addAccounts has appended an address to a cache that held one
C18_Witness ==
    /\ pc = "done" /\ op.kind = "addAccounts" /\ result.status = "resolved"
    /\ pre.accounts # <<>>
    /\ Len(accounts) = Len(pre.accounts) + 1
    /\ IsPrefix(pre.accounts, accounts)
\* a connect has cleared a cache of two addresses
C18_WitnessCleared ==
    /\ pc = "done" /\ connect.cleared
    /\ Len(pre.accounts) = 2 /\ accounts = <<>>

\* C19: the downgrade depends on the minor version only: with minor < 11,
\* whatever the major, an EIP-1559 or EIP-2930 request is rewritten to
\* legacy with revertToLegacy set.
C19_DowngradeOnMinorOnly ==
    (pc = "sign" /\ op.kind = "signTransaction" /\ op.tx[2].type \in {1, 2}
        /\ devFw[2] < 11) =>
        /\ signReq[2].revertToLegacy = Val(TRUE)
        /\ signReq[2].type = Undefined
\* C19 as amended: the downgrade depends on the major and the minor version:
\* an EIP-1559 or EIP-2930 request is rewritten to legacy, with
\* revertToLegacy set, exactly when major < 1 and minor < 11; with major >= 1
\* it keeps its type whatever the minor; a legacy request is never marked.
C19_DowngradeOnMajorAndMinor ==
    (pc = "sign" /\ op.kind = "signTransaction") =>
        LET tx == op.tx[2]
            req == signReq[2]
            old == devFw[3] < 1 /\ devFw[2] < 11
        IN  /\ req.revertToLegacy = Val(TRUE) <=> (tx.type \in {1, 2} /\ old)
            /\ req.revertToLegacy \in {Val(TRUE), Undefined}
            /\ (tx.type \in {1, 2} /\ old) => req.type = Undefined
            /\ (tx.type \in {1, 2} /\ ~old) =>
                   /\ req.type = Val(tx.type)
                   /\ req.accessList # Undefined
            /\ (tx.type = 2 /\ ~old) =>
                   /\ req.maxFeePerGas = HexOf(tx.maxFeePerGas)
                   /\ req.maxPriorityFeePerGas = HexOf(tx.maxPriorityFeePerGas)
                   /\ req.gasPrice = Undefined
\* firmware 1.10.0 is sent an EIP-1559 request as it is
C19_Witness ==
    /\ pc = "sign" /\ op.kind = "signTransaction"
    /\ devFw = <<0, 10, 1, 0>>
    /\ op.tx[2].type = 2
    /\ signReq[2].type = Val(2) /\ signReq[2].revertToLegacy = Undefined

\* C20: when the sign response has no signature, or lacks v, r or s,
\* signTransaction rejects: no transaction is returned for that response.
LacksSignature(res) ==
    \/ IsNullish(res.sig)
    \/ IsNullish(res.sig[2].v) \/ IsNullish(res.sig[2].r) \/ IsNullish(res.sig[2].s)
C20_NoTransactionWithoutSignature ==
    (pc = "done" /\ op.kind = "signTransaction" /\ op.res # Null) =>
        /\ LacksSignature(op.res[2]) =>
               /\ result.status = "rejected"
               /\ result.value = <<>>
               /\ ~IsNullish(op.res[2].tx) => result = Rejected("No signature returned.")
        /\ result.status = "resolved" =>
               /\ ~LacksSignature(op.res[2])
               /\ result.value[1].sig = op.res[2].sig[2]
\* the response carries a payload and a signature without s
C20_Witness ==
    /\ pc = "done" /\ op.kind = "signTransaction" /\ op.res # Null
    /\ op.res[2].tx = Val("payload")
    /\ op.res[2].sig = Val([v |-> Val("1b"), r |-> Val("r"), s |-> Undefined])
    /\ result = Rejected("No signature returned.")
\* the response carries no signature at all
C20_WitnessNoSig ==
    /\ pc = "done" /\ op.kind = "signTransaction" /\ op.res # Null
    /\ op.res[2].tx = Val("payload") /\ op.res[2].sig = Null
    /\ result = Rejected("No signature returned.")

\* C21: within one operation at most one Signer Session call (connect,
\* getAddresses, sign) is outstanding: every call but the last one issued
\* has called back, and a call is outstanding exactly while the operation
\* awaits it.
SessionCalls == {k \in 1..Len(calls) : calls[k].call \in {"connect", "getAddresses", "sign"}}
Outstanding == Cardinality(SessionCalls) - returned
C21_OneOutstandingCall ==
    /\ Outstanding \in {0, 1}
    /\ Outstanding = 1 =>
           /\ pc \in {"connect", "fetch", "sign"}
           /\ Len(calls) \in SessionCalls
    /\ pc \in {"idle", "creds", "done"} => Outstanding = 0
\* a recursive fetch awaits its third getAddresses: connect and the two
\* requests before it have called back
C21_Witness ==
    /\ pc = "fetch" /\ op.kind \in {"addAccounts", "getPage"}
    /\ Cardinality(CallsOf("getAddresses")) = 3
    /\ returned = 3
    /\ Outstanding = 1
\* a sign request is outstanding after connect has called back
C21_WitnessSign ==
    /\ pc = "sign" /\ op.kind \in SignKinds
    /\ Cardinality(CallsOf("connect")) = 1 /\ Cardinality(CallsOf("sign")) = 1
    /\ returned = 1
    /\ Outstanding = 1

\* C22: signTransaction or signMessage for an address that is not in the
\* account cache, compared without regard to case, sends no sign request,
\* leaves accounts, accountIndices and walletUID as they were, and rejects
\* with 'Signer not present'.
Signing == pc # "idle" /\ op.kind \in SignKinds
NotCached ==
    \A k \in 1..Len(pre.accounts) :
        ToLowerCase(pre.accounts[k]) # ToLowerCase(op.address[2])
NothingSignedOrStored ==
    /\ CallsOf("sign") = {} /\ signReq = Null /\ pc # "sign"
    /\ accounts = pre.accounts
    /\ accountIndices = pre.accountIndices
    /\ walletUID = pre.walletUID
C22_SignerNotPresent ==
    (Signing /\ NotCached) =>
        /\ NothingSignedOrStored
        /\ pc = "done" => result = Rejected("Signer not present")
\* C22, amended: the same, the rejection being 'Signer not present' when
\* unlock(false) has resolved and the error of unlock when it has not; an
\* address that is cached in another case is not reported as absent.
UnlockResolved == SawCachedWallet /\ returned >= 1
C22_SignerNotPresentOnceUnlocked ==
    /\ (Signing /\ NotCached) =>
           /\ NothingSignedOrStored
           /\ pc = "done" =>
                  /\ result.status = "rejected"
                  /\ UnlockResolved => result = Rejected("Signer not present")
                  /\ ~UnlockResolved =>
                         result.error \in {"Lattice connector closed.",
                                           "Invalid credentials returned from Lattice.",
                                           "No credentials -- cannot create session key!",
                                           "connect failed", "No active wallet",
                                           "Wallet has changed! Please reconnect."}
    /\ (Signing /\ ~NotCached /\ pc = "done") => result # Rejected("Signer not present")
\* the keyring is unlocked with a cached account and is asked to sign a
\* transaction with an address of another wallet
C22_Witness ==
    /\ pc = "done" /\ op.kind = "signTransaction" /\ NotCached
    /\ Len(pre.accounts) > 0 /\ UnlockResolved
    /\ result = Rejected("Signer not present")
\* the same for signMessage
C22_WitnessMessage ==
    /\ pc = "done" /\ op.kind = "signMessage" /\ NotCached
    /\ Len(pre.accounts) > 0 /\ UnlockResolved
    /\ result = Rejected("Signer not present")
\* a cached address passed in lower case is found and signed with
C22_WitnessLowerCase ==
    /\ pc = "sign" /\ op.kind \in SignKinds
    /\ op.address[2].lower /\ \A k \in 1..Len(accounts) : ~accounts[k].lower

====
